---- MODULE Spec2Model ----
(***************************************************************************)
(* Model of the audio relay session of main.py: handle_media_stream, the   *)
(* two forwarders receive_from_twilio and send_to_twilio run by            *)
(* asyncio.gather, and initialize_session.  The telephony peer (Twilio)    *)
(* and the realtime-AI peer (OpenAI) are the environment: they emit        *)
(* messages and close their connection at any time.  The ASGI server that  *)
(* runs the route handler closes the telephony websocket once the handler  *)
(* has returned or raised; main.py itself never closes it.                 *)
(*                                                                         *)
(* asyncio is cooperative: the code between two awaits that suspend runs   *)
(* atomically, so one action is one such stretch of a coroutine.           *)
(***************************************************************************)
EXTENDS Integers, Sequences, FiniteSets, TLC

VARIABLES
  pc,       \* position of handle_media_stream
  rxPc,     \* position of receive_from_twilio
  txPc,     \* position of send_to_twilio
  tw,       \* state of the telephony websocket
  twCloser, \* who closed the telephony websocket
  ai,       \* state of openai_ws
  aiCloser, \* who closed openai_ws
  aiOpened, \* how many connections websockets.connect has opened
  twIn,     \* frames Twilio has sent that iter_text() has not yielded yet
  aiIn,     \* events OpenAI has sent that `async for` has not yielded yet
  twRecv,   \* frames yielded to receive_from_twilio, with openai_ws.open then
  aiRecv,   \* events yielded to send_to_twilio, with the telephony state then
  aiSent,   \* texts written on openai_ws, in order
  twSent,   \* texts written on the telephony websocket, in order
  rxErr,    \* receive_from_twilio ran its except branch
  txErr     \* send_to_twilio ran its except branch

vars == <<pc, rxPc, txPc, tw, twCloser, ai, aiCloser, aiOpened, twIn, aiIn,
          twRecv, aiRecv, aiSent, twSent, rxErr, txErr>>

\* Bounds of the model: how many messages each peer emits in a session.
MaxFrames == 2
MaxEvents == 2

----------------------------------------------------------------------------
\* Wire texts and JSON values.

None == "None"

\* json.dumps: the text that serialises the JSON value v.
json_dumps(v) == [json |-> v]

\* A text that is not JSON.
NotJson == [raw |-> "{oops"]

\* Whether json.loads accepts the text (it raises JSONDecodeError otherwise).
json_valid(text) == "json" \in DOMAIN text

\* json.loads of a text it accepts.
json_loads(text) == text.json

\* dict.get(key): the value, or None when the key is missing.
Get(d, key) == IF key \in DOMAIN d THEN d[key] ELSE None

\* Python truthiness of a string-or-None value.
Truthy(v) == v # None /\ v # ""

Payloads == {"AAAA", "BBBB"}

\* What Twilio may send: media frames, a start and a stop frame, a frame
\* tagged "media" without media.payload, and a text that is not JSON.
TwilioFrames ==
  {json_dumps([event |-> "media", media |-> [payload |-> p]]) : p \in Payloads}
    \cup {json_dumps([event |-> "start"]),
          json_dumps([event |-> "stop"]),
          json_dumps([event |-> "media", media |-> [track |-> "inbound"]]),
          NotJson}

\* What OpenAI may send: audio deltas (one of them empty), an event of another
\* type that also carries a delta field, and a text that is not JSON.
AIEvents ==
  {json_dumps([type |-> "response.audio.delta", delta |-> p]) : p \in Payloads \cup {""}}
    \cup {json_dumps([type |-> "response.audio_transcript.delta", delta |-> "hi"]),
          NotJson}

----------------------------------------------------------------------------
\* The pure parts of the handlers.

\* A send that puts the message ahead of those already sent.
ws_send_reordered(sent, msg) == <<msg>> \o sent

\* A send that puts the message on the wire twice.
ws_send_twice(sent, msg) == sent \o <<msg, msg>>

\* websocket send: the message goes on the wire after those already sent.
ws_send(sent, msg) == Append(sent, msg)

\* The session.update event of initialize_session.
session_update ==
  [type |-> "session.update",
   session |-> [turn_detection |-> [type |-> "server_vad"],
                input_audio_format |-> "g711_ulaw",
                output_audio_format |-> "g711_ulaw",
                voice |-> "alloy",
                modalities |-> <<"text", "audio">>]]

\* initialize_session never run (the coroutine created but not awaited).
initialize_session_skipped(sent) == sent

\* initialize_session: what is on the AI wire after it has run.
initialize_session(sent) == ws_send(sent, json_dumps(session_update))

\* The forwarding condition without the test of the frame's tag.
forwards_media_any_tag(data, open) == open

\* The forwarding condition without the openai_ws.open test.
forwards_media_unguarded(data, open) == Get(data, "event") = "media"

\* receive_from_twilio's condition for forwarding a frame.
forwards_media(data, open) == Get(data, "event") = "media" /\ open

\* data["media"]["payload"] raises KeyError when a key is missing.
has_payload(data) == "media" \in DOMAIN data /\ "payload" \in DOMAIN data.media

\* The event receive_from_twilio builds from a media frame.
audio_append(data) ==
  [type |-> "input_audio_buffer.append", audio |-> data.media.payload]

\* The forwarding condition without the test of the event's type.
is_audio_delta_any_type(response) == Truthy(Get(response, "delta"))

\* send_to_twilio's condition for forwarding an event.
is_audio_delta(response) ==
  Get(response, "type") = "response.audio.delta" /\ Truthy(Get(response, "delta"))

\* The media frame with the payload outside the media object.
media_frame_flat(response) ==
  [event |-> "media", payload |-> response.delta]

\* The frame send_to_twilio builds from an audio delta.
media_frame(response) ==
  [event |-> "media", media |-> [payload |-> response.delta]]

----------------------------------------------------------------------------
Init ==
  /\ pc = "accept"
  /\ rxPc = "idle"
  /\ txPc = "idle"
  /\ tw = "connecting"
  /\ twCloser = "none"
  /\ ai = "none"
  /\ aiCloser = "none"
  /\ aiOpened = 0
  /\ twIn = <<>>
  /\ aiIn = <<>>
  /\ twRecv = <<>>
  /\ aiRecv = <<>>
  /\ aiSent = <<>>
  /\ twSent = <<>>
  /\ rxErr = FALSE
  /\ txErr = FALSE

----------------------------------------------------------------------------
\* handle_media_stream

\* await websocket.accept()
Accept ==
  /\ pc = "accept"
  /\ pc' = "connect"
  /\ tw' = "open"
  /\ UNCHANGED <<rxPc, txPc, twCloser, ai, aiCloser, twIn, aiIn,
                 twRecv, aiRecv, aiSent, twSent, rxErr, txErr, aiOpened>>

\* A connect that is also retried when openai_ws has closed during the session.
ConnectOK_reconnecting ==
  /\ pc = "connect" \/ (pc = "gather" /\ ai = "closed")
  /\ pc' = IF pc = "connect" THEN "init" ELSE pc
  /\ ai' = "open"
  /\ aiOpened' = aiOpened + 1
  /\ UNCHANGED <<rxPc, txPc, tw, twCloser, aiCloser, twIn, aiIn,
                 twRecv, aiRecv, aiSent, twSent, rxErr, txErr>>

\* websockets.connect(...) succeeds: openai_ws is open.
ConnectOK ==
  /\ pc = "connect"
  /\ pc' = "init"
  /\ ai' = "open"
  /\ aiOpened' = aiOpened + 1
  /\ UNCHANGED <<rxPc, txPc, tw, twCloser, aiCloser, twIn, aiIn,
                 twRecv, aiRecv, aiSent, twSent, rxErr, txErr>>

\* A failed connect that is swallowed: the forwarders are started anyway.
ConnectFail_swallowed ==
  /\ pc = "connect"
  /\ pc' = "gather"
  /\ rxPc' = "recv"
  /\ txPc' = "recv"
  /\ UNCHANGED <<tw, twCloser, ai, aiCloser, aiOpened, twIn, aiIn,
                 twRecv, aiRecv, aiSent, twSent, rxErr, txErr>>

\* websockets.connect(...) raises (no connection, handshake or credentials
\* refused): the exception leaves handle_media_stream.
ConnectFail ==
  /\ pc = "connect"
  /\ pc' = "raised"
  /\ UNCHANGED <<rxPc, txPc, tw, twCloser, ai, aiCloser, twIn, aiIn,
                 twRecv, aiRecv, aiSent, twSent, rxErr, txErr, aiOpened>>

\* await initialize_session(openai_ws), up to the send's suspension.  A send
\* on a closed connection raises ConnectionClosed, which nothing catches.
InitSend ==
  /\ pc = "init"
  /\ IF ai = "open"
       THEN /\ aiSent' = initialize_session(aiSent)
            /\ pc' = "init_send"
       ELSE /\ pc' = "raised"
            /\ UNCHANGED aiSent
  /\ UNCHANGED <<rxPc, txPc, tw, twCloser, ai, aiCloser, twIn, aiIn,
                 twRecv, aiRecv, twSent, rxErr, txErr, aiOpened>>

\* The forwarders awaited one after the other instead of gathered: only
\* receive_from_twilio is started.
InitDone_sequential ==
  /\ pc = "init_send"
  /\ IF ai = "open"
       THEN /\ pc' = "gather"
            /\ rxPc' = "recv"
            /\ UNCHANGED txPc
       ELSE /\ pc' = "raised"
            /\ UNCHANGED <<rxPc, txPc>>
  /\ UNCHANGED <<tw, twCloser, ai, aiCloser, aiOpened, twIn, aiIn,
                 twRecv, aiRecv, aiSent, twSent, rxErr, txErr>>

\* initialize_session's send returns and asyncio.gather starts both
\* forwarders; or the connection was lost during the send, which raises.
InitDone ==
  /\ pc = "init_send"
  /\ IF ai = "open"
       THEN /\ pc' = "gather"
            /\ rxPc' = "recv"
            /\ txPc' = "recv"
       ELSE /\ pc' = "raised"
            /\ UNCHANGED <<rxPc, txPc>>
  /\ UNCHANGED <<tw, twCloser, ai, aiCloser, twIn, aiIn,
                 twRecv, aiRecv, aiSent, twSent, rxErr, txErr, aiOpened>>

\* A join that an error of one forwarder ends at once (the error escaping the
\* forwarder and gather propagating it) while the other forwarder still runs.
GatherReturn_on_first_error ==
  /\ pc = "gather"
  /\ (rxPc = "done" /\ txPc = "done") \/ rxErr \/ txErr
  /\ pc' = IF rxErr \/ txErr THEN "raised" ELSE "done"
  /\ ai' = "closed"
  /\ aiCloser' = IF ai = "open" THEN "bridge" ELSE aiCloser
  /\ UNCHANGED <<rxPc, txPc, tw, twCloser, aiOpened, twIn, aiIn,
                 twRecv, aiRecv, aiSent, twSent, rxErr, txErr>>

\* asyncio.gather returns once both forwarders have returned; leaving the
\* `async with` block closes openai_ws.
GatherReturn ==
  /\ pc = "gather"
  /\ rxPc = "done"
  /\ txPc = "done"
  /\ pc' = "done"
  /\ ai' = "closed"
  /\ aiCloser' = IF ai = "open" THEN "bridge" ELSE aiCloser
  /\ UNCHANGED <<rxPc, txPc, tw, twCloser, twIn, aiIn,
                 twRecv, aiRecv, aiSent, twSent, rxErr, txErr, aiOpened>>

\* handle_media_stream is the handler of the /media-stream websocket route:
\* once it has returned, or an exception has left it, the ASGI server that
\* called it closes the telephony websocket if it is still open.
ServerClose ==
  /\ pc \in {"done", "raised"}
  /\ tw = "open"
  /\ tw' = "closed"
  /\ twCloser' = "server"
  /\ UNCHANGED <<pc, rxPc, txPc, ai, aiCloser, aiOpened, twIn, aiIn,
                 twRecv, aiRecv, aiSent, twSent, rxErr, txErr>>

----------------------------------------------------------------------------
\* receive_from_twilio

\* One iteration of `async for message in ws_twilio.iter_text()`, from the
\* frame being yielded to the next suspension.  Any exception leaves the loop
\* and is caught by the except around it.
RxReceive ==
  /\ rxPc = "recv"
  /\ twIn # <<>>
  /\ LET message == Head(twIn)
         open == (ai = "open")
     IN
       /\ twIn' = Tail(twIn)
       /\ twRecv' = Append(twRecv, [msg |-> message, open |-> open])
       /\ IF ~json_valid(message)
            THEN /\ rxPc' = "done"
                 /\ rxErr' = TRUE
                 /\ UNCHANGED aiSent
            ELSE LET data == json_loads(message) IN
                 IF forwards_media(data, open)
                   THEN IF has_payload(data)
                          THEN /\ aiSent' = ws_send(aiSent, json_dumps(audio_append(data)))
                               /\ rxPc' = "send"
                               /\ UNCHANGED rxErr
                          ELSE /\ rxPc' = "done"
                               /\ rxErr' = TRUE
                               /\ UNCHANGED aiSent
                   ELSE UNCHANGED <<rxPc, rxErr, aiSent>>
  /\ UNCHANGED <<pc, txPc, tw, twCloser, ai, aiCloser, aiIn,
                 aiRecv, twSent, txErr, aiOpened>>

\* await openai_ws.send(...) returns; it raises ConnectionClosed when the
\* connection was lost while the send was suspended.
RxSendReturn ==
  /\ rxPc = "send"
  /\ IF ai = "open"
       THEN /\ rxPc' = "recv"
            /\ UNCHANGED rxErr
       ELSE /\ rxPc' = "done"
            /\ rxErr' = TRUE
  /\ UNCHANGED <<pc, txPc, tw, twCloser, ai, aiCloser, twIn, aiIn,
                 twRecv, aiRecv, aiSent, twSent, txErr, aiOpened>>

\* iter_text() ends when the telephony peer has disconnected and every frame
\* it sent has been yielded.
RxEnd ==
  /\ rxPc = "recv"
  /\ twIn = <<>>
  /\ tw = "closed"
  /\ rxPc' = "done"
  /\ UNCHANGED <<pc, txPc, tw, twCloser, ai, aiCloser, twIn, aiIn,
                 twRecv, aiRecv, aiSent, twSent, rxErr, txErr, aiOpened>>

----------------------------------------------------------------------------
\* send_to_twilio

\* An iteration whose failed send is swallowed (an except inside the loop, or
\* a send that does not raise on a closed connection): the loop goes on.
TxReceive_swallowing ==
  /\ txPc = "recv"
  /\ aiIn # <<>>
  /\ LET openai_message == Head(aiIn)
         open == (tw = "open")
     IN
       /\ aiIn' = Tail(aiIn)
       /\ aiRecv' = Append(aiRecv, [msg |-> openai_message, open |-> open])
       /\ IF ~json_valid(openai_message)
            THEN /\ txPc' = "done"
                 /\ txErr' = TRUE
                 /\ UNCHANGED twSent
            ELSE LET response == json_loads(openai_message) IN
                 IF is_audio_delta(response) /\ open
                   THEN /\ twSent' = ws_send(twSent, json_dumps(media_frame(response)))
                        /\ txPc' = "send"
                        /\ UNCHANGED txErr
                   ELSE UNCHANGED <<txPc, txErr, twSent>>
  /\ UNCHANGED <<pc, rxPc, tw, twCloser, ai, aiCloser, aiOpened, twIn,
                 twRecv, aiSent, rxErr>>

\* One iteration of `async for openai_message in openai_ws`.  send_json
\* serialises the frame and sends the text; on a telephony connection that is
\* no longer open the send raises instead, and the except catches it.
TxReceive ==
  /\ txPc = "recv"
  /\ aiIn # <<>>
  /\ LET openai_message == Head(aiIn)
         open == (tw = "open")
     IN
       /\ aiIn' = Tail(aiIn)
       /\ aiRecv' = Append(aiRecv, [msg |-> openai_message, open |-> open])
       /\ IF ~json_valid(openai_message)
            THEN /\ txPc' = "done"
                 /\ txErr' = TRUE
                 /\ UNCHANGED twSent
            ELSE LET response == json_loads(openai_message) IN
                 IF is_audio_delta(response)
                   THEN IF open
                          THEN /\ twSent' = ws_send(twSent, json_dumps(media_frame(response)))
                               /\ txPc' = "send"
                               /\ UNCHANGED txErr
                          ELSE /\ txPc' = "done"
                               /\ txErr' = TRUE
                               /\ UNCHANGED twSent
                   ELSE UNCHANGED <<txPc, txErr, twSent>>
  /\ UNCHANGED <<pc, rxPc, tw, twCloser, ai, aiCloser, twIn,
                 twRecv, aiSent, rxErr, aiOpened>>

\* await ws_twilio.send_json(...) returns, or raises when the telephony
\* connection was lost while the send was suspended.
TxSendReturn ==
  /\ txPc = "send"
  /\ IF tw = "open"
       THEN /\ txPc' = "recv"
            /\ UNCHANGED txErr
       ELSE /\ txPc' = "done"
            /\ txErr' = TRUE
  /\ UNCHANGED <<pc, rxPc, tw, twCloser, ai, aiCloser, twIn, aiIn,
                 twRecv, aiRecv, aiSent, twSent, rxErr, aiOpened>>

\* The `async for` over openai_ws ends when the connection has closed and
\* every event received has been yielded: silently after a clean close, with
\* ConnectionClosedError (caught) after an abnormal one.  Which of the two the
\* close was shows only here.
TxEnd ==
  /\ txPc = "recv"
  /\ aiIn = <<>>
  /\ ai = "closed"
  /\ txPc' = "done"
  /\ txErr' \in BOOLEAN
  /\ UNCHANGED <<pc, rxPc, tw, twCloser, ai, aiCloser, twIn, aiIn,
                 twRecv, aiRecv, aiSent, twSent, rxErr, aiOpened>>

----------------------------------------------------------------------------
\* The environment: the two peers.

TwilioSend ==
  /\ tw = "open"
  /\ Len(twIn) + Len(twRecv) < MaxFrames
  /\ \E f \in TwilioFrames : twIn' = Append(twIn, f)
  /\ UNCHANGED <<pc, rxPc, txPc, tw, twCloser, ai, aiCloser, aiIn,
                 twRecv, aiRecv, aiSent, twSent, rxErr, txErr, aiOpened>>

TwilioClose ==
  /\ tw = "open"
  /\ tw' = "closed"
  /\ twCloser' = "peer"
  /\ UNCHANGED <<pc, rxPc, txPc, ai, aiCloser, twIn, aiIn,
                 twRecv, aiRecv, aiSent, twSent, rxErr, txErr, aiOpened>>

AISend ==
  /\ ai = "open"
  /\ Len(aiIn) + Len(aiRecv) < MaxEvents
  /\ \E e \in AIEvents : aiIn' = Append(aiIn, e)
  /\ UNCHANGED <<pc, rxPc, txPc, tw, twCloser, ai, aiCloser, twIn,
                 twRecv, aiRecv, aiSent, twSent, rxErr, txErr, aiOpened>>

AIClose ==
  /\ ai = "open"
  /\ ai' = "closed"
  /\ aiCloser' = "peer"
  /\ UNCHANGED <<pc, rxPc, txPc, tw, twCloser, twIn, aiIn,
                 twRecv, aiRecv, aiSent, twSent, rxErr, txErr, aiOpened>>

----------------------------------------------------------------------------
Bridge ==
  \/ Accept
  \/ ConnectOK
  \/ InitSend
  \/ InitDone
  \/ GatherReturn
  \/ ServerClose
  \/ RxReceive
  \/ RxSendReturn
  \/ RxEnd
  \/ TxReceive
  \/ TxSendReturn
  \/ TxEnd

Next ==
  \/ Accept
  \/ ConnectOK
  \/ ConnectFail
  \/ InitSend
  \/ InitDone
  \/ GatherReturn
  \/ ServerClose
  \/ RxReceive
  \/ RxSendReturn
  \/ RxEnd
  \/ TxReceive
  \/ TxSendReturn
  \/ TxEnd
  \/ TwilioSend
  \/ TwilioClose
  \/ AISend
  \/ AIClose

Spec == Init /\ [][Next]_vars

\* The event loop runs every coroutine that is ready: each step of the bridge
\* that stays enabled is eventually taken.  The peers owe nothing.
FairSpec == Spec /\ WF_vars(Bridge)

----------------------------------------------------------------------------
\* Vocabulary of the properties, stated on the wire and on the logs.

Last(s) == s[Len(s)]

RECURSIVE IsSubseq(_, _)
\* Whether s is t with some elements left out, order kept.
IsSubseq(s, t) ==
  IF s = <<>> THEN TRUE
  ELSE IF t = <<>> THEN FALSE
  ELSE IF Head(s) = Head(t) THEN IsSubseq(Tail(s), Tail(t))
  ELSE IsSubseq(s, Tail(t))

\* A telephony text that is JSON and is tagged "media".
TaggedMedia(text) ==
  /\ "json" \in DOMAIN text
  /\ "event" \in DOMAIN text.json
  /\ text.json.event = "media"

\* A valid media frame: tagged "media" and carrying media.payload.
ValidMedia(text) ==
  /\ TaggedMedia(text)
  /\ "media" \in DOMAIN text.json
  /\ "payload" \in DOMAIN text.json.media

\* A malformed telephony frame: not JSON, or tagged "media" without payload.
MalformedFrame(text) ==
  \/ "json" \notin DOMAIN text
  \/ TaggedMedia(text) /\ ~ValidMedia(text)

\* An AI text that is an event of type response.audio.delta.
TypedAudioDelta(text) ==
  /\ "json" \in DOMAIN text
  /\ "type" \in DOMAIN text.json
  /\ text.json.type = "response.audio.delta"

\* An audio delta that carries a non-empty delta.
NonEmptyDelta(text) ==
  /\ TypedAudioDelta(text)
  /\ "delta" \in DOMAIN text.json
  /\ text.json.delta # ""

\* A well-formed AI event of another type.
OtherEvent(text) ==
  /\ "json" \in DOMAIN text
  /\ "type" \in DOMAIN text.json
  /\ text.json.type # "response.audio.delta"

IsAppend(text) == text.json.type = "input_audio_buffer.append"
IsSessionUpdate(text) == text.json.type = "session.update"

\* The input_audio_buffer.append events on the AI wire, in order.
Appends == SelectSeq(aiSent, IsAppend)

\* The session.update events on the AI wire.
SessionUpdates == SelectSeq(aiSent, IsSessionUpdate)

MediaWhileOpen(e) == ValidMedia(e.msg) /\ e.open
DeltaWhileOpen(e) == NonEmptyDelta(e.msg) /\ e.open
MediaEntry(e) == ValidMedia(e.msg)
DeltaEntry(e) == NonEmptyDelta(e.msg)

\* receive_from_twilio has just been handed a frame / send_to_twilio an event.
RxGot == Len(twRecv') = Len(twRecv) + 1
TxGot == Len(aiRecv') = Len(aiRecv) + 1

----------------------------------------------------------------------------
\* C1: whenever the telephony connection has closed while the forwarders run
\* and the AI connection is open, the bridge eventually closes the AI
\* connection and both forwarders have exited, the AI peer owing no event and
\* no close.
C1_TelephonyCloseTearsDown ==
  (pc = "gather" /\ tw = "closed" /\ ai = "open")
    ~> (ai = "closed" /\ rxPc = "done" /\ txPc = "done")

\* C2: whenever the AI connection has closed while the forwarders run and the
\* telephony connection is open, eventually the telephony connection is
\* closed and both forwarders have exited, the telephony peer owing no close.
C2_AICloseTearsDown ==
  (pc = "gather" /\ ai = "closed" /\ tw = "open")
    ~> (tw = "closed" /\ rxPc = "done" /\ txPc = "done")

\* C3: a malformed telephony frame handed to receive_from_twilio while both
\* connections are open does not terminate it.
C3_MalformedFrameNotFatal ==
  [][(RxGot /\ MalformedFrame(Last(twRecv').msg) /\ tw = "open" /\ ai = "open")
       => rxPc' # "done"]_vars

\* C4: an AI message that fails to decode, handed to send_to_twilio while both
\* connections are open, does not terminate it.
C4_MalformedEventNotFatal ==
  [][(TxGot /\ "json" \notin DOMAIN Last(aiRecv').msg /\ tw = "open" /\ ai = "open")
       => txPc' # "done"]_vars

\* C5: the append events on the AI wire are exactly, one for one and in order,
\* the valid media frames received while the AI connection was open, each
\* carrying that frame's payload; there are never more of them than media
\* frames received.
C5_OneAppendPerMediaFrame ==
  LET fwd == SelectSeq(twRecv, MediaWhileOpen) IN
    /\ Len(Appends) = Len(fwd)
    /\ \A i \in 1..Len(fwd) :
         Appends[i] = [json |-> [type |-> "input_audio_buffer.append",
                                 audio |-> fwd[i].msg.json.media.payload]]
    /\ Len(Appends) <= Len(SelectSeq(twRecv, MediaEntry))

C5_Witness ==
  /\ Len(Appends) = 2
  /\ Appends[1] # Appends[2]
  /\ rxPc = "recv"

\* C6: a frame tagged "media" received while the AI connection is closed puts
\* nothing on the AI wire, raises no error and leaves receive_from_twilio
\* waiting for the next frame; and nothing is ever put on the AI wire once the
\* connection is closed, so the frame is not sent later either.
C6_DropWhileAIClosed ==
  /\ [][(RxGot /\ TaggedMedia(Last(twRecv').msg) /\ ai # "open")
          => (aiSent' = aiSent /\ rxErr' = FALSE /\ rxPc' = "recv")]_vars
  /\ [][ai = "closed" => aiSent' = aiSent]_vars

C6_Witness ==
  /\ Len(twRecv) = 2
  /\ TaggedMedia(twRecv[1].msg) /\ ~twRecv[1].open
  /\ ValidMedia(twRecv[2].msg)
  /\ rxPc = "recv"

\* C7: the frames on the telephony wire are exactly, one for one and in order,
\* the non-empty response.audio.delta events received while the telephony
\* connection was open, each as {event: "media", media: {payload: delta}}.
C7_OneFramePerAudioDelta ==
  LET fwd == SelectSeq(aiRecv, DeltaWhileOpen) IN
    /\ Len(twSent) = Len(fwd)
    /\ \A i \in 1..Len(fwd) :
         twSent[i] = [json |-> [event |-> "media",
                                media |-> [payload |-> fwd[i].msg.json.delta]]]

C7_Witness ==
  /\ Len(twSent) = 2
  /\ twSent[1] # twSent[2]
  /\ txPc = "recv"

\* C8: an AI event whose type is not response.audio.delta leaves the frames
\* sent on the telephony connection unchanged, and send_to_twilio goes on to
\* wait for the next event.
C8_OtherEventsIgnored ==
  [][(TxGot /\ OtherEvent(Last(aiRecv').msg))
       => (twSent' = twSent /\ txErr' = FALSE /\ txPc' = "recv")]_vars

C8_Witness ==
  /\ Len(aiRecv) = 2
  /\ OtherEvent(aiRecv[1].msg)
  /\ NonEmptyDelta(aiRecv[2].msg)
  /\ Len(twSent) = 1

\* C9: at most one session.update is ever on the AI wire; once a forwarder has
\* started, or anything has been forwarded in either direction, exactly one
\* is, and it is the first message on the AI wire.
C9_SessionUpdateOnceAndFirst ==
  /\ Len(SessionUpdates) <= 1
  /\ (\/ rxPc # "idle" \/ txPc # "idle"
      \/ twRecv # <<>> \/ aiRecv # <<>>
      \/ Appends # <<>> \/ twSent # <<>>
      \/ pc \in {"gather", "done"})
       => /\ Len(SessionUpdates) = 1
          /\ aiSent # <<>>
          /\ IsSessionUpdate(aiSent[1])

C9_Witness ==
  /\ pc = "done"
  /\ Appends # <<>>
  /\ twSent # <<>>
  /\ Len(SessionUpdates) = 1

\* The payloads of a sequence of append texts / media frames / log entries.
AudioOf(s) == [i \in 1..Len(s) |-> s[i].json.audio]
PayloadOf(s) == [i \in 1..Len(s) |-> s[i].json.media.payload]
MediaPayloads(log) == [i \in 1..Len(log) |-> log[i].msg.json.media.payload]
Deltas(log) == [i \in 1..Len(log) |-> log[i].msg.json.delta]

\* C10: the audio payloads sent on the AI connection are, in order, a
\* subsequence of the media payloads received from the telephony connection,
\* and the payloads sent on the telephony connection are, in order, a
\* subsequence of the audio deltas received from the AI connection.
C10_ReceiptOrderKept ==
  /\ IsSubseq(AudioOf(Appends), MediaPayloads(SelectSeq(twRecv, MediaEntry)))
  /\ IsSubseq(PayloadOf(twSent), Deltas(SelectSeq(aiRecv, DeltaEntry)))

C10_Witness ==
  /\ Len(Appends) = 2
  /\ Appends[1] # Appends[2]
  /\ Len(twSent) = 2
  /\ twSent[1] # twSent[2]

C12_ForwarderExitEndsSession ==
  (pc = "gather" /\ tw = "open" /\ ai = "open"
     /\ (rxPc = "done") # (txPc = "done"))
    ~> (rxPc = "done" /\ txPc = "done")

\* A forwarder is suspended: awaiting its next message or inside a send.
RxSuspended == rxPc \in {"recv", "send"}
TxSuspended == txPc \in {"recv", "send"}

BothOpen == tw = "open" /\ ai = "open"

\* C13 as stated: whenever receive_from_twilio is suspended and an AI event is
\* pending with both connections open, the step of send_to_twilio that
\* consumes it is enabled; and symmetrically.
C13_AsStated ==
  /\ (RxSuspended /\ aiIn # <<>> /\ BothOpen) => ENABLED TxReceive
  /\ (TxSuspended /\ twIn # <<>> /\ BothOpen) => ENABLED RxReceive

\* C13 amended: whenever the forwarders run, receive_from_twilio is suspended,
\* send_to_twilio is neither inside a send of its own nor terminated, and an
\* AI event is pending with both connections open, the step of send_to_twilio
\* that consumes it is enabled; and symmetrically.
C13_IndependentScheduling ==
  /\ (pc = "gather" /\ RxSuspended /\ txPc \notin {"send", "done"}
        /\ aiIn # <<>> /\ BothOpen)
       => ENABLED TxReceive
  /\ (pc = "gather" /\ TxSuspended /\ rxPc \notin {"send", "done"}
        /\ twIn # <<>> /\ BothOpen)
       => ENABLED RxReceive

C13_Witness ==
  /\ pc = "gather"
  /\ rxPc = "send"
  /\ txPc = "recv"
  /\ aiIn # <<>>
  /\ BothOpen

\* C14: at most one AI connection is ever opened in a session, so none is
\* opened again after it has closed; it is opened only once the telephony
\* connection has been accepted, and nothing is sent in either direction, and
\* no forwarder runs, before it has been opened.
C14_OneAIConnection ==
  /\ aiOpened <= 1
  /\ (ai # "none") = (aiOpened = 1)
  /\ aiOpened = 1 => tw # "connecting"
  /\ (aiSent # <<>> \/ twSent # <<>> \/ rxPc # "idle" \/ txPc # "idle")
       => aiOpened = 1

C14_Witness ==
  /\ pc = "done"
  /\ ai = "closed"
  /\ aiCloser = "peer"
  /\ aiOpened = 1
  /\ twSent # <<>>
  /\ Len(aiSent) > 1

\* A well-formed telephony frame whose tag is not "media".
OtherTag(text) ==
  /\ "json" \in DOMAIN text
  /\ "event" \in DOMAIN text.json
  /\ text.json.event # "media"

\* C15: a well-formed frame tagged otherwise than "media" puts nothing on
\* either wire, raises no error and leaves receive_from_twilio waiting for the
\* next frame; and after the frames [start, media(p)], the second received
\* with the AI connection open, exactly one append event, with audio = p, has
\* been sent.
C15_OtherTagsIgnored ==
  /\ [][(RxGot /\ OtherTag(Last(twRecv').msg))
          => (aiSent' = aiSent /\ twSent' = twSent
              /\ rxErr' = FALSE /\ rxPc' = "recv")]_vars
  /\ []((/\ Len(twRecv) = 2
         /\ twRecv[1].msg = [json |-> [event |-> "start"]]
         /\ ValidMedia(twRecv[2].msg)
         /\ twRecv[2].open)
        => Appends = <<[json |-> [type |-> "input_audio_buffer.append",
                                  audio |-> twRecv[2].msg.json.media.payload]]>>)

C15_Witness ==
  /\ Len(twRecv) = 2
  /\ twRecv[1].msg = [json |-> [event |-> "start"]]
  /\ ValidMedia(twRecv[2].msg)
  /\ Len(Appends) = 1
  /\ rxPc = "recv"

\* C16: a forwarder that caught an error has returned, and no exception that
\* leaves handle_media_stream comes from a started forwarder; the join has
\* completed, and the bridge has closed the AI connection, only in states
\* where both forwarders have returned.
C16_NoErrorEscapes ==
  /\ rxErr => rxPc = "done"
  /\ txErr => txPc = "done"
  /\ pc = "raised" => (rxPc = "idle" /\ txPc = "idle")
  /\ (pc = "done" \/ aiCloser = "bridge") => (rxPc = "done" /\ txPc = "done")

C16_Witness ==
  /\ pc = "done"
  /\ aiCloser = "bridge"
  /\ rxErr
  /\ txErr

\* A non-empty audio delta handed to send_to_twilio after the telephony
\* connection had closed: the send it attempts fails.
FailedSend(e) == NonEmptyDelta(e.msg) /\ ~e.open

\* C17: an audio delta received after the telephony connection has closed is
\* the last event send_to_twilio ever receives: its send fails, the failure
\* is caught and send_to_twilio has returned; so at most one send is attempted
\* on the closed connection, and it puts nothing on the telephony wire.
C17_OneFailedSend ==
  /\ \A i \in 1..Len(aiRecv) :
       FailedSend(aiRecv[i])
         => (i = Len(aiRecv) /\ txPc = "done" /\ txErr)
  /\ Len(SelectSeq(aiRecv, FailedSend)) <= 1
  /\ Len(twSent) <= Len(aiRecv) - Len(SelectSeq(aiRecv, FailedSend))

C17_Witness ==
  /\ pc = "done"
  /\ Len(aiRecv) = 1
  /\ FailedSend(aiRecv[1])
  /\ aiIn # <<>>
  /\ twSent = <<>>

====
